---- MODULE Spec2Model ----
(***************************************************************************)
(* The two lexical scanners of the interpreter:                            *)
(*   - the offset-based Scanner of src/src/scanner.rs   (prefix o_ / O_)   *)
(*   - the Peekable-based Scanner of src/src/syntax/scanner.rs (p_ / P_)   *)
(* Both are run on the same source text.  A character is a string; the     *)
(* non-ASCII ones are written by code point.  start and current are byte   *)
(* offsets into the UTF-8 text, as in the code.                            *)
(***************************************************************************)
EXTENDS Integers, Sequences, FiniteSets, TLC

VARIABLES source,
          o_pc, o_tokens, o_start, o_current, o_line, o_has_error,
          o_c, o_m, o_stderr, o_result, o_entry, o_caller, o_steps,
          p_pc, p_c_iter, p_tokens, p_start, p_current, p_line, p_has_error,
          p_c, p_stderr, p_result, p_entry, p_caller, p_steps

o_vars == <<o_pc, o_tokens, o_start, o_current, o_line, o_has_error,
            o_c, o_m, o_stderr, o_result, o_entry, o_caller, o_steps>>
p_vars == <<p_pc, p_c_iter, p_tokens, p_start, p_current, p_line, p_has_error,
            p_c, p_stderr, p_result, p_entry, p_caller, p_steps>>
vars == <<source, o_vars, p_vars>>

(***************************************************************************)
(* Characters                                                              *)
(***************************************************************************)
NoChar == ""

Digits == {"0", "1", "2", "3", "4", "5", "6", "7", "8", "9"}
AsciiLetters == {"a", "b", "c", "d", "e", "f", "g", "h", "i", "j", "k", "l", "m",
                 "n", "o", "p", "q", "r", "s", "t", "u", "v", "w", "x", "y", "z",
                 "A", "B", "C", "D", "E", "F", "G", "H", "I", "J", "K", "L", "M",
                 "N", "O", "P", "Q", "R", "S", "T", "U", "V", "W", "X", "Y", "Z"}
\* U+00E9 (e acute) and U+03BB (lambda) are alphabetic, U+00A3 (pound sign)
\* and U+263A (smiling face) are not; U+0663 (arabic-indic digit three) is
\* numeric but not alphabetic.
NonAsciiAlphabetic == {"U+00E9", "U+03BB"}
NonAsciiNumeric == {"U+0663"}
TwoByteChars == {"U+00E9", "U+03BB", "U+00A3", "U+0663"}
ThreeByteChars == {"U+263A"}

len_utf8(c) == IF c \in TwoByteChars THEN 2 ELSE IF c \in ThreeByteChars THEN 3 ELSE 1
is_ascii_digit(c) == c \in Digits
is_alphabetic(c) == c \in AsciiLetters \cup NonAsciiAlphabetic
is_alphanumeric(c) == is_alphabetic(c) \/ c \in Digits \cup NonAsciiNumeric

(***************************************************************************)
(* UTF-8 text: byte offsets, char boundaries, slicing                      *)
(***************************************************************************)
RECURSIVE ByteOff(_, _)
\* the byte offset just after the first i characters of s
ByteOff(s, i) == IF i = 0 THEN 0 ELSE ByteOff(s, i - 1) + len_utf8(s[i])

ByteLen(s) == ByteOff(s, Len(s))
IsCharBoundary(s, b) == \E i \in 0..Len(s) : ByteOff(s, i) = b
CharsBefore(s, b) == CHOOSE i \in 0..Len(s) : ByteOff(s, i) = b

\* s.char_indices().find(|(o, _)| *o == b)
CharAtByte(s, b) ==
    IF \E i \in 1..Len(s) : ByteOff(s, i - 1) = b
    THEN s[CHOOSE i \in 1..Len(s) : ByteOff(s, i - 1) = b]
    ELSE NoChar

\* &s[a..b]: panics unless a <= b <= len and both lie on char boundaries
StrSlice(s, a, b) ==
    IF a <= b /\ IsCharBoundary(s, a) /\ IsCharBoundary(s, b)
    THEN [ok |-> TRUE, val |-> SubSeq(s, CharsBefore(s, a) + 1, CharsBefore(s, b))]
    ELSE [ok |-> FALSE, val |-> <<>>]

(***************************************************************************)
(* Tokens and literals (src/src/syntax/token.rs)                           *)
(***************************************************************************)
NoNumber == [neg |-> FALSE, mant |-> 0, exp10 |-> 0]
LiteralNone == [tag |-> "None", s |-> <<>>, n |-> NoNumber]
LiteralString(v) == [tag |-> "String", s |-> v, n |-> NoNumber]
LiteralNumber(v) == [tag |-> "Number", s |-> <<>>, n |-> v]

Token(token_type, lexeme, literal, line) ==
    [token_type |-> token_type, lexeme |-> lexeme, literal |-> literal, line |-> line]

\* the number of Eof tokens of a token list
EofTokens(tokens) == Cardinality({i \in 1..Len(tokens) : tokens[i].token_type = "Eof"})

\* mutant: the '*' and '+' arms exchanged
SingleCharTokens_StarPlusSwapped ==
    "(" :> "LeftParen" @@ ")" :> "RightParen" @@ "{" :> "LeftBrace" @@
    "}" :> "RightBrace" @@ "." :> "Dot" @@ "*" :> "Plus" @@ "+" :> "Star" @@
    "-" :> "Minus" @@ ";" :> "Semicolon" @@ "," :> "Comma"

SingleCharTokens ==
    "(" :> "LeftParen" @@ ")" :> "RightParen" @@ "{" :> "LeftBrace" @@
    "}" :> "RightBrace" @@ "." :> "Dot" @@ "*" :> "Star" @@ "+" :> "Plus" @@
    "-" :> "Minus" @@ ";" :> "Semicolon" @@ "," :> "Comma"

OneCharOperator ==
    "!" :> "Bang" @@ "=" :> "Equal" @@ ">" :> "Greater" @@ "<" :> "Less" @@
    "/" :> "Slash"

TwoCharOperator ==
    "!" :> "BangEqual" @@ "=" :> "EqualEqual" @@ ">" :> "GreaterEqual" @@
    "<" :> "LessEqual"

\* the second character each lookahead arm of scan_token asks for
ToMatch(c) == IF c = "/" THEN "/" ELSE "="

\* mutant: the tab is missing from the whitespace arm
Whitespace_WithoutTab == {" ", "\r"}

Whitespace == {" ", "\r", "\t"}

RESERVED_KEYWORDS ==
    <<"a", "n", "d">> :> "And" @@
    <<"c", "l", "a", "s", "s">> :> "Class" @@
    <<"e", "l", "s", "e">> :> "Else" @@
    <<"f", "a", "l", "s", "e">> :> "False" @@
    <<"f", "o", "r">> :> "For" @@
    <<"f", "u", "n">> :> "Fun" @@
    <<"i", "f">> :> "If" @@
    <<"n", "i", "l">> :> "Nil" @@
    <<"o", "r">> :> "Or" @@
    <<"p", "r", "i", "n", "t">> :> "Print" @@
    <<"r", "e", "t", "u", "r", "n">> :> "Return" @@
    <<"s", "u", "p", "e", "r">> :> "Super" @@
    <<"t", "h", "i", "s">> :> "This" @@
    <<"t", "r", "u", "e">> :> "True" @@
    <<"v", "a", "r">> :> "Var" @@
    <<"w", "h", "i", "l", "e">> :> "While"

\* match x.get(lexeme) { Some(tt) => tt, _ => Identifier }
\* mutant: a lexeme that begins with a reserved word is taken for that word
IdentifierType_ByPrefix(lexeme) ==
    LET begins(kw) == Len(kw) <= Len(lexeme) /\ SubSeq(lexeme, 1, Len(kw)) = kw
    IN  IF \E kw \in DOMAIN RESERVED_KEYWORDS : begins(kw)
        THEN RESERVED_KEYWORDS[CHOOSE kw \in DOMAIN RESERVED_KEYWORDS : begins(kw)]
        ELSE "Identifier"

IdentifierType(lexeme) ==
    IF lexeme \in DOMAIN RESERVED_KEYWORDS THEN RESERVED_KEYWORDS[lexeme]
    ELSE "Identifier"

(***************************************************************************)
(* str::parse::<f64>() on the lexemes a scanner can hand to it.  The value *)
(* is kept exactly, as (-1)^neg * mant * 10^exp10 in lowest terms: for the *)
(* lexemes of the model (fewer than 15 significant digits) two lexemes     *)
(* parse to the same f64 exactly when these normal forms are equal.        *)
(***************************************************************************)
DigitValue ==
    "0" :> 0 @@ "1" :> 1 @@ "2" :> 2 @@ "3" :> 3 @@ "4" :> 4 @@
    "5" :> 5 @@ "6" :> 6 @@ "7" :> 7 @@ "8" :> 8 @@ "9" :> 9

RECURSIVE DigitsToNat(_)
DigitsToNat(s) ==
    IF s = <<>> THEN 0
    ELSE DigitsToNat(SubSeq(s, 1, Len(s) - 1)) * 10 + DigitValue[s[Len(s)]]

RECURSIVE NormalNumber(_, _, _)
NormalNumber(neg, mant, exp10) ==
    IF mant = 0 THEN NoNumber
    ELSE IF mant % 10 = 0 THEN NormalNumber(neg, mant \div 10, exp10 + 1)
    ELSE [neg |-> neg, mant |-> mant, exp10 |-> exp10]

AllDigits(s) == \A i \in 1..Len(s) : s[i] \in Digits
IndexOf(s, cs) == IF \E i \in 1..Len(s) : s[i] \in cs
                  THEN CHOOSE i \in 1..Len(s) : s[i] \in cs /\ \A j \in 1..(i - 1) : s[j] \notin cs
                  ELSE 0
Signed(s) == s /= <<>> /\ s[1] \in {"+", "-"}
Unsigned(s) == IF Signed(s) THEN SubSeq(s, 2, Len(s)) ELSE s

\* [sign] (digits ['.' digits] | '.' digits) [('e'|'E') [sign] digits]
ParseF64(lexeme) ==
    LET body == Unsigned(lexeme)
        e == IndexOf(body, {"e", "E"})
        dec == IF e = 0 THEN body ELSE SubSeq(body, 1, e - 1)
        ex == IF e = 0 THEN <<>> ELSE SubSeq(body, e + 1, Len(body))
        exd == Unsigned(ex)
        d == IndexOf(dec, {"."})
        ip == IF d = 0 THEN dec ELSE SubSeq(dec, 1, d - 1)
        fp == IF d = 0 THEN <<>> ELSE SubSeq(dec, d + 1, Len(dec))
        valid == /\ AllDigits(ip) /\ AllDigits(fp)
                 /\ Len(ip) + Len(fp) > 0
                 /\ (e /= 0 => (exd /= <<>> /\ AllDigits(exd)))
        exv == IF Signed(ex) /\ ex[1] = "-" THEN 0 - DigitsToNat(exd) ELSE DigitsToNat(exd)
    IN  IF valid
        THEN [ok |-> TRUE,
              val |-> NormalNumber(Signed(lexeme) /\ lexeme[1] = "-",
                                   DigitsToNat(ip \o fp), exv - Len(fp))]
        ELSE [ok |-> FALSE, val |-> NoNumber]

(***************************************************************************)
(* Diagnostics written to stderr                                           *)
(***************************************************************************)
UnexpectedCharacter(line, c) == [line |-> line, message |-> "Unexpected character: ", c |-> c]
UnterminatedString(line) == [line |-> line, message |-> "Unterminated string.", c |-> NoChar]

\* Result<&[Token], &[Token]> of scan_tokens
NoResult == [variant |-> "None", tokens |-> <<>>]
\* mutant: has_error is not looked at
ScanResult_AlwaysOk(has_error, tokens) == [variant |-> "Ok", tokens |-> tokens]

ScanResult(has_error, tokens) ==
    [variant |-> IF has_error THEN "Err" ELSE "Ok", tokens |-> tokens]

\* what a scan_token call found on entry (history, not program state)
NoEntry == [called |-> FALSE, tokens |-> <<>>, current |-> 0, line |-> 1,
            has_error |-> FALSE, stderr |-> <<>>]
Entry(tokens, current, line, has_error, stderr) ==
    [called |-> TRUE, tokens |-> tokens, current |-> current, line |-> line,
     has_error |-> has_error, stderr |-> stderr]

(***************************************************************************)
(* The offset-based Scanner (src/src/scanner.rs)                           *)
(***************************************************************************)
O_peek(cur) == CharAtByte(source, cur)
O_is_at_end(cur) == cur >= ByteLen(source)

\* the steps a scanner takes are counted (history, not program state), up to
\* MaxSteps
MaxSteps == 64

\* one step of the scanner: the fields it leaves behind.  The caller of the
\* call in progress stays what it is.
O_Set(pc, tokens, start, cur, line, has_error, stderr) ==
    /\ o_steps < MaxSteps
    /\ o_steps' = o_steps + 1
    /\ o_caller' = o_caller
    /\ o_pc' = pc
    /\ o_tokens' = tokens
    /\ o_start' = start
    /\ o_current' = cur
    /\ o_line' = line
    /\ o_has_error' = has_error
    /\ o_stderr' = stderr

\* mutant: the loop of scan_tokens does not move start
O_Return_StartKept(tokens, cur, line, has_error, stderr) ==
    O_Set("loop", tokens, o_start, cur, line, has_error, stderr)

\* scan_token returns: into the loop of scan_tokens, which sets
\* start = current, or to the caller of the public scan_token, which leaves
\* start as it is
O_Return(tokens, cur, line, has_error, stderr) ==
    IF o_caller = "scan_token"
    THEN O_Set("idle", tokens, o_start, cur, line, has_error, stderr)
    ELSE O_Set("loop", tokens, cur, cur, line, has_error, stderr)

\* control moves on inside scan_token, the cursor at cur
O_Step(pc, cur, line) ==
    O_Set(pc, o_tokens, o_start, cur, line, o_has_error, o_stderr)

\* a slice out of range or a failed expect: the thread panics
O_Panic == O_Set("panic", o_tokens, o_start, o_current, o_line, o_has_error, o_stderr)

\* add_token with the cursor at cur, then return
O_add_token(token_type, literal, cur) ==
    LET lexeme == StrSlice(source, o_start, cur)
    IN  IF lexeme.ok
        THEN O_Return(Append(o_tokens, Token(token_type, lexeme.val, literal, o_line)),
                      cur, o_line, o_has_error, o_stderr)
        ELSE O_Panic

O_add_token_without_literal(token_type, cur) == O_add_token(token_type, LiteralNone, cur)

\* mutant: only the first error is written to stderr
O_error_OnlyFirst(diagnostic, cur) ==
    O_Return(o_tokens, cur, o_line, TRUE,
             IF o_has_error THEN o_stderr ELSE Append(o_stderr, diagnostic))

\* has_error = true; eprintln!(...); then return
O_error(diagnostic, cur) ==
    O_Return(o_tokens, cur, o_line, TRUE, Append(o_stderr, diagnostic))

\* mutant: the loop exit builds the result without pushing Eof
O_Eof_NotPushed ==
    /\ o_pc = "loop"
    /\ O_is_at_end(o_current)
    /\ O_Set("done", o_tokens, o_start, o_current, o_line, o_has_error, o_stderr)
    /\ o_result' = ScanResult(o_has_error, o_tokens)
    /\ UNCHANGED <<source, o_c, o_m, o_entry, p_vars>>

\* scan_tokens, loop exit: the Eof token is pushed and the result built
O_Eof ==
    /\ o_pc = "loop"
    /\ O_is_at_end(o_current)
    /\ LET lexeme == StrSlice(source, o_start, o_current)
           tokens == Append(o_tokens, Token("Eof", lexeme.val, LiteralNone, o_line))
       IN  IF lexeme.ok
           THEN /\ O_Set("done", tokens, o_start, o_current, o_line, o_has_error, o_stderr)
                /\ o_result' = ScanResult(o_has_error, tokens)
           ELSE O_Panic /\ UNCHANGED o_result
    /\ UNCHANGED <<source, o_c, o_m, o_entry, p_vars>>

\* scan_tokens is called on a scanner that is not inside a call: its loop
\* starts.  The calls are counted by the Eof tokens they leave, up to MaxCalls.
MaxCalls == 2
O_call_scan_tokens ==
    /\ o_pc \in {"idle", "done"}
    /\ EofTokens(o_tokens) < MaxCalls
    /\ o_pc' = "loop"
    /\ o_caller' = "scan_tokens"
    /\ UNCHANGED <<source, o_tokens, o_start, o_current, o_line, o_has_error, o_c, o_m,
                   o_stderr, o_result, o_entry, o_steps, p_vars>>

\* the public scan_token is called on a scanner that is not inside a call.
\* At the end of the input the call returns at once and changes nothing.
O_call_scan_token ==
    /\ o_pc \in {"idle", "done"}
    /\ ~O_is_at_end(o_current)
    /\ o_pc' = "called"
    /\ o_caller' = "scan_token"
    /\ UNCHANGED <<source, o_tokens, o_start, o_current, o_line, o_has_error, o_c, o_m,
                   o_stderr, o_result, o_entry, o_steps, p_vars>>

\* scan_token, called by an iteration of the loop of scan_tokens or by the
\* public caller: advance() and the match on c
O_scan_token ==
    /\ \/ o_pc = "loop" /\ ~O_is_at_end(o_current)
       \/ o_pc = "called"
    /\ LET c == O_peek(o_current)
           cur == o_current + len_utf8(c)
       IN  /\ o_c' = c
           /\ IF c = NoChar THEN O_Return(o_tokens, o_current, o_line, o_has_error, o_stderr)
              ELSE IF c \in DOMAIN SingleCharTokens
                   THEN O_add_token_without_literal(SingleCharTokens[c], cur)
              ELSE IF c \in DOMAIN OneCharOperator THEN O_Step("advance_if_match", cur, o_line)
              ELSE IF c \in Whitespace THEN O_Return(o_tokens, cur, o_line, o_has_error, o_stderr)
              ELSE IF c = "\n" THEN O_Return(o_tokens, cur, o_line + 1, o_has_error, o_stderr)
              ELSE IF c = "\"" THEN O_Step("add_string", cur, o_line)
              ELSE IF is_ascii_digit(c) THEN O_Step("add_number", cur, o_line)
              ELSE IF is_alphabetic(c) \/ c = "_" THEN O_Step("add_identifier", cur, o_line)
              ELSE O_error(UnexpectedCharacter(o_line, c), cur)
    /\ o_entry' = Entry(o_tokens, o_current, o_line, o_has_error, o_stderr)
    /\ UNCHANGED <<source, o_m, o_result, p_vars>>

\* advance_if_match up to its inner advance(): at the end of input None is
\* returned at once, otherwise the cursor steps over the next character
O_advance_if_match ==
    /\ o_pc = "advance_if_match"
    /\ IF O_is_at_end(o_current)
       THEN /\ O_add_token_without_literal(OneCharOperator[o_c], o_current)
            /\ o_m' = NoChar
       ELSE LET m == O_peek(o_current)
            IN  /\ o_m' = m
                /\ IF m = NoChar
                   THEN O_add_token_without_literal(OneCharOperator[o_c], o_current)
                   ELSE O_Step("matched", o_current + len_utf8(m), o_line)
    /\ UNCHANGED <<source, o_c, o_result, o_entry, p_vars>>

\* mutant: the cursor is not stepped back
O_step_back_Forgotten(m) == o_current

\* self.current -= c.len_utf8()
O_step_back(m) == o_current - len_utf8(m)

\* advance_if_match after advance(): keep the character, or step back; then
\* the arm of scan_token that called it
O_matched ==
    /\ o_pc = "matched"
    /\ IF o_m = ToMatch(o_c)
       THEN IF o_c = "/" THEN O_Step("comment", o_current, o_line)
            ELSE O_add_token_without_literal(TwoCharOperator[o_c], o_current)
       ELSE O_add_token_without_literal(OneCharOperator[o_c], O_step_back(o_m))
    /\ UNCHANGED <<source, o_c, o_m, o_result, o_entry, p_vars>>

\* mutant: the comment loop does not stop at a newline
O_in_comment_PastNewline(c) == c /= NoChar /\ ~O_is_at_end(o_current)

\* self.peek() != Some('\n') && !self.peek().is_none() && !self.is_at_end()
O_in_comment(c) == c /= "\n" /\ c /= NoChar /\ ~O_is_at_end(o_current)

\* mutant: the comment loop peeks at the next character and does not advance
O_comment_PeekOnly ==
    /\ o_pc = "comment"
    /\ LET c == O_peek(o_current)
       IN  IF O_in_comment(c)
           THEN O_Step("comment", o_current, o_line)
           ELSE O_Return(o_tokens, o_current, o_line, o_has_error, o_stderr)
    /\ UNCHANGED <<source, o_c, o_m, o_result, o_entry, p_vars>>

\* the '/' arm's loop over a comment
O_comment ==
    /\ o_pc = "comment"
    /\ LET c == O_peek(o_current)
       IN  IF O_in_comment(c)
           THEN O_Step("comment", o_current + len_utf8(c), o_line)
           ELSE O_Return(o_tokens, o_current, o_line, o_has_error, o_stderr)
    /\ UNCHANGED <<source, o_c, o_m, o_result, o_entry, p_vars>>

\* mutant: the offsets into source are used on the lexeme
O_string_value_OfLexeme(cur) ==
    StrSlice(StrSlice(source, o_start, cur).val,
             o_start + len_utf8("\""), cur - len_utf8("\""))

\* &self.source[self.start + 1..self.current - 1] once the closing quote is consumed
O_string_value(cur) == StrSlice(source, o_start + len_utf8("\""), cur - len_utf8("\""))

\* mutant: a newline inside a string is not counted
O_string_line_NotCounted(c) == o_line

\* if self.peek() == Some('\n') { self.increase_line() }
O_string_line(c) == IF c = "\n" THEN o_line + 1 ELSE o_line

\* add_string: one iteration of its loop, or what follows the loop
O_add_string ==
    /\ o_pc = "add_string"
    /\ LET c == O_peek(o_current)
       IN  IF c /= "\"" /\ c /= NoChar /\ ~O_is_at_end(o_current)
           THEN O_Step("add_string", o_current + len_utf8(c), O_string_line(c))
           ELSE IF O_is_at_end(o_current)
           THEN O_error(UnterminatedString(o_line), o_current)
           ELSE LET cur == o_current + len_utf8(c)
                    val == O_string_value(cur)
                IN  IF val.ok THEN O_add_token("String", LiteralString(val.val), cur)
                    ELSE O_Panic
    /\ UNCHANGED <<source, o_c, o_m, o_result, o_entry, p_vars>>

\* mutant: the Number token is pushed without its literal
O_number_token_WithoutLiteral(cur) == O_add_token_without_literal("Number", cur)

\* the end of add_number: the lexeme is parsed and the token pushed
O_number_token(cur) ==
    LET lexeme == StrSlice(source, o_start, cur)
        num == ParseF64(lexeme.val)
    IN  IF lexeme.ok /\ num.ok THEN O_add_token("Number", LiteralNumber(num.val), cur)
        ELSE O_Panic

\* mutant: the cursor steps over the next character whatever it is
O_dot_follows_Unchecked(c) == TRUE

\* self.peek() == Some('.')
O_dot_follows(c) == c = "."

\* add_number: the loop over the integer part, then the step over a '.'
O_add_number ==
    /\ o_pc = "add_number"
    /\ LET c == O_peek(o_current)
       IN  IF is_ascii_digit(c) THEN O_Step("add_number", o_current + len_utf8(c), o_line)
           ELSE IF O_dot_follows(c)
           THEN O_Step("add_number_dot", o_current + len_utf8("."), o_line)
           ELSE O_number_token(o_current)
    /\ UNCHANGED <<source, o_c, o_m, o_result, o_entry, p_vars>>

\* add_number with the cursor moved over the '.': a digit follows, or step back
O_add_number_dot ==
    /\ o_pc = "add_number_dot"
    /\ LET c == O_peek(o_current)
       IN  IF is_ascii_digit(c) THEN O_Step("add_number_frac", o_current + len_utf8(c), o_line)
           ELSE O_number_token(o_current - len_utf8("."))
    /\ UNCHANGED <<source, o_c, o_m, o_result, o_entry, p_vars>>

\* add_number: the loop over the fractional part
O_add_number_frac ==
    /\ o_pc = "add_number_frac"
    /\ LET c == O_peek(o_current)
       IN  IF is_ascii_digit(c) THEN O_Step("add_number_frac", o_current + len_utf8(c), o_line)
           ELSE O_number_token(o_current)
    /\ UNCHANGED <<source, o_c, o_m, o_result, o_entry, p_vars>>

\* add_identifier: one iteration of its loop, or the keyword lookup
O_add_identifier ==
    /\ o_pc = "add_identifier"
    /\ LET c == O_peek(o_current)
           lexeme == StrSlice(source, o_start, o_current)
       IN  IF c /= NoChar /\ (is_alphanumeric(c) \/ c = "_")
           THEN O_Step("add_identifier", o_current + len_utf8(c), o_line)
           ELSE IF lexeme.ok
           THEN O_add_token_without_literal(IdentifierType(lexeme.val), o_current)
           ELSE O_Panic
    /\ UNCHANGED <<source, o_c, o_m, o_result, o_entry, p_vars>>

\* Scanner::new
O_new ==
    /\ o_tokens = <<>>
    /\ o_start = 0
    /\ o_current = 0
    /\ o_line = 1
    /\ o_has_error = FALSE
    /\ o_c = NoChar
    /\ o_m = NoChar
    /\ o_stderr = <<>>
    /\ o_result = NoResult
    /\ o_entry = NoEntry
    /\ o_steps = 0

O_Init ==
    /\ o_pc = "loop"
    /\ o_caller = "scan_tokens"
    /\ O_new

(***************************************************************************)
(* The Peekable-based Scanner (src/src/syntax/scanner.rs).  c_iter is the  *)
(* number of characters the iterator has yielded.                          *)
(***************************************************************************)
P_peek(it) == IF it < Len(source) THEN source[it + 1] ELSE NoChar
P_peek_next(it) == IF it + 1 < Len(source) THEN source[it + 2] ELSE NoChar

\* Every action of this scanner fixes start first (scan_tokens sets it at the
\* head of an iteration, nothing else writes it); the operators below read
\* that value as p_start'.

P_Set(pc, it, tokens, start, cur, line, has_error, stderr) ==
    /\ p_steps < MaxSteps
    /\ p_steps' = p_steps + 1
    /\ p_caller' = p_caller
    /\ p_pc' = pc
    /\ p_c_iter' = it
    /\ p_tokens' = tokens
    /\ p_start' = start
    /\ p_current' = cur
    /\ p_line' = line
    /\ p_has_error' = has_error
    /\ p_stderr' = stderr

\* scan_token returns, into the loop of scan_tokens or to the caller of the
\* public scan_token
P_Return(it, tokens, cur, line, has_error, stderr) ==
    P_Set(IF p_caller = "scan_token" THEN "idle" ELSE "loop",
          it, tokens, p_start', cur, line, has_error, stderr)

\* control moves on inside scan_token, the iterator at it and the cursor at cur
P_Step(pc, it, cur, line) ==
    P_Set(pc, it, p_tokens, p_start', cur, line, p_has_error, p_stderr)

\* a slice out of range or a failed expect: the thread panics
P_Panic ==
    P_Set("panic", p_c_iter, p_tokens, p_start', p_current, p_line, p_has_error, p_stderr)

\* &self.source[self.start..self.current] with the cursor at cur
P_lexeme(cur) == StrSlice(source, p_start', cur)

\* add_token with the cursor at cur, then return
P_add_token(token_type, literal, it, cur) ==
    LET lexeme == P_lexeme(cur)
    IN  IF lexeme.ok
        THEN P_Return(it, Append(p_tokens, Token(token_type, lexeme.val, literal, p_line)),
                      cur, p_line, p_has_error, p_stderr)
        ELSE P_Panic

P_add_token_without_literal(token_type, it, cur) ==
    P_add_token(token_type, LiteralNone, it, cur)

\* mutant: the diagnostic is written but has_error is not set
P_error_FlagNotSet(diagnostic, it, cur) ==
    P_Return(it, p_tokens, cur, p_line, p_has_error, Append(p_stderr, diagnostic))

\* has_error = true; eprintln!(...); then return
P_error(diagnostic, it, cur) ==
    P_Return(it, p_tokens, cur, p_line, TRUE, Append(p_stderr, diagnostic))

\* scan_tokens, loop exit: the result is built from has_error and tokens
P_scan_tokens_returns ==
    /\ p_pc = "loop"
    /\ P_peek(p_c_iter) = NoChar
    /\ p_start' = p_start
    /\ P_Set("done", p_c_iter, p_tokens, p_start, p_current, p_line, p_has_error, p_stderr)
    /\ p_result' = ScanResult(p_has_error, p_tokens)
    /\ UNCHANGED <<source, p_c, p_entry, o_vars>>

\* scan_tokens is called on a scanner on which it has not returned yet: its
\* loop starts
P_call_scan_tokens ==
    /\ p_pc = "idle"
    /\ p_pc' = "loop"
    /\ p_caller' = "scan_tokens"
    /\ UNCHANGED <<source, p_c_iter, p_tokens, p_start, p_current, p_line, p_has_error, p_c,
                   p_stderr, p_result, p_entry, p_steps, o_vars>>

\* the public scan_token is called on a scanner that is not inside a call.
\* The calls at the end of the input are counted by the Eof tokens they
\* leave, up to MaxCalls.
P_call_scan_token ==
    /\ p_pc \in {"idle", "done"}
    /\ P_peek(p_c_iter) /= NoChar \/ EofTokens(p_tokens) < MaxCalls
    /\ p_pc' = "called"
    /\ p_caller' = "scan_token"
    /\ UNCHANGED <<source, p_c_iter, p_tokens, p_start, p_current, p_line, p_has_error, p_c,
                   p_stderr, p_result, p_entry, p_steps, o_vars>>

\* scan_token, called by an iteration of the loop of scan_tokens, after
\* start = current, or by the public caller: advance(), the Eof token if it
\* yields None, else the match on c
P_scan_token ==
    /\ \/ p_pc = "loop" /\ P_peek(p_c_iter) /= NoChar /\ p_start' = p_current
       \/ p_pc = "called" /\ p_start' = p_start
    /\ LET c == P_peek(p_c_iter)
           it == p_c_iter + 1
           cur == p_current + len_utf8(c)
       IN  /\ p_c' = c
           /\ IF c = NoChar
              THEN P_add_token_without_literal("Eof", p_c_iter, p_current)
              ELSE IF c \in DOMAIN SingleCharTokens
              THEN P_add_token_without_literal(SingleCharTokens[c], it, cur)
              ELSE IF c \in DOMAIN OneCharOperator THEN P_Step("advance_if", it, cur, p_line)
              ELSE IF c \in Whitespace
                   THEN P_Return(it, p_tokens, cur, p_line, p_has_error, p_stderr)
              ELSE IF c = "\n"
                   THEN P_Return(it, p_tokens, cur, p_line + 1, p_has_error, p_stderr)
              ELSE IF c = "\"" THEN P_Step("add_string", it, cur, p_line)
              ELSE IF is_ascii_digit(c) THEN P_Step("add_number", it, cur, p_line)
              ELSE IF is_alphabetic(c) \/ c = "_" THEN P_Step("add_identifier", it, cur, p_line)
              ELSE P_error(UnexpectedCharacter(p_line, c), it, cur)
    /\ p_entry' = Entry(p_tokens, p_current, p_line, p_has_error, p_stderr)
    /\ UNCHANGED <<source, p_result, o_vars>>

\* advance_if(|c| c == to_match) and the arm of scan_token that called it
P_advance_if ==
    /\ p_pc = "advance_if"
    /\ p_start' = p_start
    /\ LET m == P_peek(p_c_iter)
       IN  IF m /= NoChar /\ m = ToMatch(p_c)
           THEN IF p_c = "/"
                THEN P_Step("comment", p_c_iter + 1, p_current + len_utf8(m), p_line)
                ELSE P_add_token_without_literal(TwoCharOperator[p_c], p_c_iter + 1,
                                                 p_current + len_utf8(m))
           ELSE P_add_token_without_literal(OneCharOperator[p_c], p_c_iter, p_current)
    /\ UNCHANGED <<source, p_c, p_result, p_entry, o_vars>>

\* advance_while(|c| c != '\n') over a comment
P_comment ==
    /\ p_pc = "comment"
    /\ p_start' = p_start
    /\ LET c == P_peek(p_c_iter)
       IN  IF c /= NoChar /\ c /= "\n"
           THEN P_Step("comment", p_c_iter + 1, p_current + len_utf8(c), p_line)
           ELSE P_Return(p_c_iter, p_tokens, p_current, p_line, p_has_error, p_stderr)
    /\ UNCHANGED <<source, p_c, p_result, p_entry, o_vars>>

\* self.lexeme()[self.start + 1..self.current - 1] once the closing quote is consumed
P_string_value(cur) ==
    LET lexeme == P_lexeme(cur)
    IN  IF lexeme.ok
        THEN StrSlice(lexeme.val, p_start + len_utf8("\""), cur - len_utf8("\""))
        ELSE [ok |-> FALSE, val |-> <<>>]

\* mutant: the unterminated string is pushed as a String token all the same
P_unterminated_string_Pushed ==
    P_add_token("String", LiteralString(SubSeq(source, CharsBefore(source, p_start) + 2,
                                               Len(source))),
                p_c_iter, p_current)

\* add_string, input exhausted: has_error = true; eprintln!(...); return
P_unterminated_string == P_error(UnterminatedString(p_line), p_c_iter, p_current)

\* add_string: one iteration of its loop, or what follows the loop
P_add_string ==
    /\ p_pc = "add_string"
    /\ p_start' = p_start
    /\ LET c == P_peek(p_c_iter)
       IN  IF c /= NoChar /\ c /= "\""
           THEN P_Step("add_string", p_c_iter + 1, p_current + len_utf8(c),
                       IF c = "\n" THEN p_line + 1 ELSE p_line)
           ELSE IF c = NoChar
           THEN P_unterminated_string
           ELSE LET cur == p_current + len_utf8(c)
                    s == P_string_value(cur)
                IN  IF s.ok THEN P_add_token("String", LiteralString(s.val), p_c_iter + 1, cur)
                    ELSE P_Panic
    /\ UNCHANGED <<source, p_c, p_result, p_entry, o_vars>>

\* the end of add_number: the lexeme is parsed and the token pushed
P_number_token ==
    LET lexeme == P_lexeme(p_current)
        num == ParseF64(lexeme.val)
    IN  IF lexeme.ok /\ num.ok
        THEN P_add_token("Number", LiteralNumber(num.val), p_c_iter, p_current)
        ELSE P_Panic

\* mutant: the character after the '.' is not looked at
P_fraction_follows_AnyDot(it) == P_peek(it) = "."

\* self.peek() == Some(&'.') && self.peek_next().map_or(false, |c| c.is_ascii_digit())
P_fraction_follows(it) == P_peek(it) = "." /\ is_ascii_digit(P_peek_next(it))

\* add_number: advance_while over the integer part, then the test for a
\* '.' followed by a digit
P_add_number ==
    /\ p_pc = "add_number"
    /\ p_start' = p_start
    /\ LET c == P_peek(p_c_iter)
       IN  IF is_ascii_digit(c)
           THEN P_Step("add_number", p_c_iter + 1, p_current + len_utf8(c), p_line)
           ELSE IF P_fraction_follows(p_c_iter)
           THEN P_Step("add_number_frac", p_c_iter + 1, p_current + len_utf8(c), p_line)
           ELSE P_number_token
    /\ UNCHANGED <<source, p_c, p_result, p_entry, o_vars>>

\* add_number: advance_while over the fractional part
P_add_number_frac ==
    /\ p_pc = "add_number_frac"
    /\ p_start' = p_start
    /\ LET c == P_peek(p_c_iter)
       IN  IF is_ascii_digit(c)
           THEN P_Step("add_number_frac", p_c_iter + 1, p_current + len_utf8(c), p_line)
           ELSE P_number_token
    /\ UNCHANGED <<source, p_c, p_result, p_entry, o_vars>>

\* add_identifier: advance_while over the run, then the keyword lookup
P_add_identifier ==
    /\ p_pc = "add_identifier"
    /\ p_start' = p_start
    /\ LET c == P_peek(p_c_iter)
           lexeme == P_lexeme(p_current)
       IN  IF c /= NoChar /\ (is_alphanumeric(c) \/ c = "_")
           THEN P_Step("add_identifier", p_c_iter + 1, p_current + len_utf8(c), p_line)
           ELSE IF lexeme.ok
           THEN P_add_token_without_literal(IdentifierType(lexeme.val), p_c_iter, p_current)
           ELSE P_Panic
    /\ UNCHANGED <<source, p_c, p_result, p_entry, o_vars>>

\* Scanner::new
P_new ==
    /\ p_c_iter = 0
    /\ p_tokens = <<>>
    /\ p_start = 0
    /\ p_current = 0
    /\ p_line = 1
    /\ p_has_error = FALSE
    /\ p_c = NoChar
    /\ p_stderr = <<>>
    /\ p_result = NoResult
    /\ p_entry = NoEntry
    /\ p_steps = 0

P_Init ==
    /\ p_pc = "loop"
    /\ p_caller = "scan_tokens"
    /\ P_new

(***************************************************************************)
(* The source texts scanned                                                *)
(***************************************************************************)
MaxLen == 3

\* one character of every class the match of scan_token tells apart
Alphabet == {"=", "/", " ", "\n", "\"", "1", ".", "a", "$", "U+00E9"}

\* every character the scanners treat in a way of its own
AllChars ==
    (DOMAIN SingleCharTokens) \cup (DOMAIN OneCharOperator) \cup Whitespace
    \cup {"\n", "\"", "\\", "$", "#", "_", "0", "1", "9", "a", "A", "e", "z"}
    \cup NonAsciiAlphabetic \cup NonAsciiNumeric \cup {"U+00A3", "U+263A"}

Texts(chars, n) == UNION {[1..k -> chars] : k \in 0..n}

\* the inputs of the two test suites
TestSources == {
    <<>>,
    <<"(", "(", ")">>,
    <<"{", "{", "}", "}">>,
    <<"(", "{", "*", ".", ",", "+", "*", "}", ")">>,
    <<",", ".", "$", "(", "#">>,
    <<"=", "(", "=", "=", ")">>,
    <<"(", "/", "/", "t", "h", "i", "s", " ", "i", "s", " ", "a", " ",
      "c", "o", "m", "m", "e", "n", "t">>,
    <<"(", "/", "/", "/", "U", "n", "i", "c", "o", "d", "e", ":",
      "U+00A3", "U+263A", ")">>,
    <<" ", "/", " ", " ", "\t", " ", "\r">>,
    <<"\"", "f", "o", "o", " ", "b", "a", "r", "\"">>,
    <<"1", "2", "3", "4", ".", "1", "2", "3", "4">>,
    <<"f", "o", "o", " ", "b", "a", "r", " ", "_", "h", "e", "l", "l", "o">>,
    <<"a", "n", "d">> }

\* string literals, closed or not, at several offsets of the source
MaxPrefix == 2
MaxBody == 2
StringSources ==
    {pre \o <<"\"">> \o body \o post :
        pre \in Texts({" ", "U+00E9"}, MaxPrefix),
        body \in Texts({"a", "\\", "\n"}, MaxBody),
        post \in {<<>>, <<"\"">>, <<"\"", "(">>}}

\* comments of several contents, ended by a newline or by the end of input
CommentSources ==
    {pre \o <<"/", "/">> \o body \o post :
        pre \in {<<>>, <<"(">>},
        body \in Texts({"\"", "$", "U+263A", "/"}, MaxBody),
        post \in {<<>>, <<"\n">>, <<"\n", "(">>}}

\* digits and dots in every order, and numbers of other digits
MaxDigits == 5
NumberSources ==
    Texts({"1", "."}, MaxDigits)
    \cup {<<"1", "2", "3", ".">>, <<"1", ".", "2", ".", "3">>, <<"0", ".", "5", "0">>,
          <<"9", "0">>, <<"0", "0", "7">>, <<"1", ".", "a">>, <<"1", ".", "\n", "2">>,
          <<"U+263A", "1", ".">>, <<"=", "U+263A">>}

\* the reserved words, each alone, capitalised, lengthened by one identifier
\* character on either side, after a digit and twice with a space between
Words ==
    {<<"a", "n", "d">>,
     <<"c", "l", "a", "s", "s">>,
     <<"e", "l", "s", "e">>,
     <<"f", "a", "l", "s", "e">>,
     <<"f", "o", "r">>,
     <<"f", "u", "n">>,
     <<"i", "f">>,
     <<"n", "i", "l">>,
     <<"o", "r">>,
     <<"p", "r", "i", "n", "t">>,
     <<"r", "e", "t", "u", "r", "n">>,
     <<"s", "u", "p", "e", "r">>,
     <<"t", "h", "i", "s">>,
     <<"t", "r", "u", "e">>,
     <<"v", "a", "r">>,
     <<"w", "h", "i", "l", "e">>}
Capital == "a" :> "A" @@ "c" :> "C" @@ "e" :> "E" @@ "f" :> "F" @@ "i" :> "I" @@ "n" :> "N" @@ "o" :> "O" @@ "p" :> "P" @@ "r" :> "R" @@ "s" :> "S" @@ "t" :> "T" @@ "v" :> "V" @@ "w" :> "W"
WordSources ==
    UNION {{w, <<Capital[w[1]]>> \o SubSeq(w, 2, Len(w)),
            w \o <<"y">>, w \o <<"_">>, w \o <<"1">>, w \o <<"U+00E9">>,
            <<"_">> \o w, <<"1">> \o w, w \o <<" ">> \o w} : w \in Words}

\* several errors on several lines
ErrorSources ==
    {<<"$", "\n", "#", "\n", "\"", "a">>, <<"$", "#", "(", "\n", "$">>,
     <<"\"", "a", "\n", "\n">>, <<"#", "/", "/", "$", "\n", "$">>,
     <<"a", " ", "$", "/", "/", "b", "\n", "1", "\"", " ">>,
     <<"1", "\"", "a", "\"", "a">>, <<"\n", "\"", "\n", "\"", "/", "/", "\n">>}

Sources ==
    Texts(Alphabet, MaxLen)
    \cup ErrorSources
    \cup WordSources
    \cup {<<a, b>> : a \in AllChars, b \in AllChars}
    \cup StringSources
    \cup CommentSources
    \cup NumberSources
    \cup TestSources

(***************************************************************************)
(* The two scanners are constructed on the same source and scan_tokens is  *)
(* called on each, the offset-based one first.                             *)
(***************************************************************************)
Init ==
    /\ source \in Sources
    /\ O_Init
    /\ P_Init

O_Returned == o_pc \in {"done", "panic"}

Next ==
    \/ O_scan_token
    \/ O_advance_if_match
    \/ O_matched
    \/ O_comment
    \/ O_add_string
    \/ O_add_number
    \/ O_add_number_dot
    \/ O_add_number_frac
    \/ O_add_identifier
    \/ O_Eof
    \/ O_Returned /\ P_scan_token
    \/ O_Returned /\ P_advance_if
    \/ O_Returned /\ P_comment
    \/ O_Returned /\ P_add_string
    \/ O_Returned /\ P_add_number
    \/ O_Returned /\ P_add_number_frac
    \/ O_Returned /\ P_add_identifier
    \/ O_Returned /\ P_scan_tokens_returns

Spec == Init /\ [][Next]_vars

(***************************************************************************)
(* The public operations called in any order: one scanner, not inside a    *)
(* call at first, on which scan_token and scan_tokens are called one after *)
(* the other; the other scanner is not used in that run.                   *)
(***************************************************************************)
MaxCallLen == 3
CallSources ==
    Texts({"(", "=", "/", "\n", "\"", "1", ".", "a"}, MaxCallLen)
    \cup {<<"a", "n", "d", " ", "\"", "a", "\"">>, <<"1", ".", "1", " ", "=", "=">>}

CallsInit ==
    /\ source \in CallSources
    /\ O_new
    /\ P_new
    /\ o_caller = "none"
    /\ p_caller = "none"
    /\ \/ o_pc = "idle" /\ p_pc = "off"
       \/ o_pc = "off" /\ p_pc = "idle"

CallsNext ==
    \/ O_call_scan_tokens
    \/ O_call_scan_token
    \/ O_scan_token
    \/ O_advance_if_match
    \/ O_matched
    \/ O_comment
    \/ O_add_string
    \/ O_add_number
    \/ O_add_number_dot
    \/ O_add_number_frac
    \/ O_add_identifier
    \/ O_Eof
    \/ P_call_scan_tokens
    \/ P_call_scan_token
    \/ P_scan_token
    \/ P_advance_if
    \/ P_comment
    \/ P_add_string
    \/ P_add_number
    \/ P_add_number_frac
    \/ P_add_identifier
    \/ P_scan_tokens_returns

SpecCalls == CallsInit /\ [][CallsNext]_vars

(***************************************************************************)
(* Vocabulary of the properties                                            *)
(***************************************************************************)
EofToken(line) == Token("Eof", <<>>, LiteralNone, line)
TokenTypes(tokens) == [i \in 1..Len(tokens) |-> tokens[i].token_type]
NonEof(tokens) == SelectSeq(tokens, LAMBDA tk : tk.token_type /= "Eof")
EofCount(tokens) == Cardinality({i \in 1..Len(tokens) : tokens[i].token_type = "Eof"})
IsPrefix(s, t) == Len(s) <= Len(t) /\ SubSeq(t, 1, Len(s)) = s

\* a scan_token call of scan_tokens has returned; its entry is in o_entry / p_entry
O_AfterScanToken == o_pc = "loop" /\ o_entry.called
P_AfterScanToken == p_pc = "loop" /\ p_entry.called

\* the index in source of the character that call met first, and the
\* characters from there on
O_EntryIndex == CharsBefore(source, o_entry.current) + 1
P_EntryIndex == CharsBefore(source, p_entry.current) + 1
CharAtIndex(i) == IF i \in 1..Len(source) THEN source[i] ELSE NoChar

\* the first index >= i of source holding a character of cs, Len(source) + 1 if none
FirstFrom(i, cs) ==
    IF \E j \in i..Len(source) : source[j] \in cs
    THEN CHOOSE j \in i..Len(source) :
            source[j] \in cs /\ \A k \in i..(j - 1) : source[k] \notin cs
    ELSE Len(source) + 1

NewlinesIn(s) == Cardinality({i \in 1..Len(s) : s[i] = "\n"})

\* the classes of the dispatch table: a character of none of them is a lexical error
Unrecognised(c) ==
    /\ c /= NoChar
    /\ c \notin {"(", ")", "{", "}", ".", ",", ";", "+", "-", "*"}
    /\ c \notin {"!", "=", "<", ">", "/"}
    /\ c \notin {" ", "\t", "\r", "\n", "\"", "_"}
    /\ c \notin Digits
    /\ ~is_alphabetic(c)

TestErrors == <<",", ".", "$", "(", "#">>
TestAssignmentAndEqualMix == <<"=", "(", "=", "=", ")">>

(***************************************************************************)
(* C1: Peekable-based scanner: once scan_tokens has returned, the result   *)
(* is a non-empty sequence ending in an Eof token with empty lexeme and no *)
(* literal, holding no other Eof; for the empty source it is [Eof] on      *)
(* line 1.                                                                 *)
(***************************************************************************)
C1_SyntaxEndsInOneEof ==
    p_pc = "done" =>
        /\ Len(p_result.tokens) >= 1
        /\ p_result.tokens[Len(p_result.tokens)] = EofToken(p_line)
        /\ EofCount(p_result.tokens) = 1
        /\ (source = <<>> => p_result.tokens = <<EofToken(1)>>)

(***************************************************************************)
(* C2: offset-based scanner: scan_tokens does not panic, and once it has   *)
(* returned, with or without lexical errors, the result is a non-empty     *)
(* sequence ending in an Eof token with empty lexeme and no literal,       *)
(* holding no other Eof; for the empty source it is [Eof] on line 1.       *)
(***************************************************************************)
C2_OffsetEndsInOneEof ==
    /\ o_pc /= "panic"
    /\ o_pc = "done" =>
        /\ Len(o_result.tokens) >= 1
        /\ o_result.tokens[Len(o_result.tokens)] = EofToken(o_line)
        /\ EofCount(o_result.tokens) = 1
        /\ (source = <<>> => o_result.tokens = <<EofToken(1)>>)

\* the offset scanner has returned Err with real tokens before the one Eof
C2_Witness ==
    /\ o_pc = "done"
    /\ o_result.variant = "Err"
    /\ Len(o_result.tokens) >= 3
    /\ EofCount(o_result.tokens) = 1

(***************************************************************************)
(* C3: in both scanners, when scan_tokens returns, it returns Err if and   *)
(* only if at least one lexical error (unexpected character, unterminated  *)
(* string) was reported during the pass, Ok otherwise, and the slice in    *)
(* the result is the scanner's whole token list.                           *)
(***************************************************************************)
C3_ErrIffLexicalError ==
    /\ o_pc = "done" =>
        /\ o_result.variant = (IF o_stderr /= <<>> THEN "Err" ELSE "Ok")
        /\ o_result.tokens = o_tokens
    /\ p_pc = "done" =>
        /\ p_result.variant = (IF p_stderr /= <<>> THEN "Err" ELSE "Ok")
        /\ p_result.tokens = p_tokens

\* both scanners have returned Err after an unterminated string, with
\* tokens recognised before it
C3_Witness ==
    /\ o_pc = "done" /\ p_pc = "done"
    /\ o_result.variant = "Err" /\ p_result.variant = "Err"
    /\ \E i \in 1..Len(o_stderr) : o_stderr[i].message = "Unterminated string."
    /\ \E i \in 1..Len(p_stderr) : p_stderr[i].message = "Unterminated string."
    /\ Len(p_result.tokens) >= 1

(***************************************************************************)
(* C4: in both scanners, a scan_token call that meets a character of none  *)
(* of the recognised classes sets has_error, pushes no token, leaves the   *)
(* line alone and moves the cursor just past that one character; tokens    *)
(* pushed earlier stay in place, and ",.$(#" gives Comma, Dot, LeftParen   *)
(* with an Err result.                                                     *)
(***************************************************************************)
C4_UnexpectedCharacterSkipped ==
    /\ (O_AfterScanToken /\ Unrecognised(CharAtIndex(O_EntryIndex))) =>
        /\ o_has_error
        /\ o_tokens = o_entry.tokens
        /\ o_line = o_entry.line
        /\ o_current = o_entry.current + len_utf8(CharAtIndex(O_EntryIndex))
        /\ o_start = o_current
    /\ (P_AfterScanToken /\ Unrecognised(CharAtIndex(P_EntryIndex))) =>
        /\ p_has_error
        /\ p_tokens = p_entry.tokens
        /\ p_line = p_entry.line
        /\ p_current = p_entry.current + len_utf8(CharAtIndex(P_EntryIndex))
        /\ p_c_iter = P_EntryIndex
    /\ o_entry.called => IsPrefix(o_entry.tokens, o_tokens)
    /\ p_entry.called => IsPrefix(p_entry.tokens, p_tokens)
    /\ (source = TestErrors /\ o_pc = "done") =>
        /\ o_result.variant = "Err"
        /\ TokenTypes(NonEof(o_result.tokens)) = <<"Comma", "Dot", "LeftParen">>
    /\ (source = TestErrors /\ p_pc = "done") =>
        /\ p_result.variant = "Err"
        /\ TokenTypes(NonEof(p_result.tokens)) = <<"Comma", "Dot", "LeftParen">>

\* both scanners are through ",.$(#", the last call having met '#'
C4_Witness ==
    /\ source = TestErrors
    /\ o_pc = "done" /\ p_pc = "done"
    /\ CharAtIndex(O_EntryIndex) = "#" /\ CharAtIndex(P_EntryIndex) = "#"
    /\ Len(o_stderr) = 2 /\ Len(p_stderr) = 2

(***************************************************************************)
(* C5: in both scanners, a scan_token call that meets an opening quote     *)
(* with no closing quote before the end of input sets has_error, consumes  *)
(* all the remaining input and pushes no token; the tokens pushed before   *)
(* are unchanged.                                                          *)
(***************************************************************************)
O_MetUnterminatedString ==
    /\ CharAtIndex(O_EntryIndex) = "\""
    /\ FirstFrom(O_EntryIndex + 1, {"\""}) = Len(source) + 1
P_MetUnterminatedString ==
    /\ CharAtIndex(P_EntryIndex) = "\""
    /\ FirstFrom(P_EntryIndex + 1, {"\""}) = Len(source) + 1

C5_UnterminatedStringNoToken ==
    /\ (O_AfterScanToken /\ O_MetUnterminatedString) =>
        /\ o_has_error
        /\ o_current = ByteLen(source)
        /\ o_tokens = o_entry.tokens
    /\ (P_AfterScanToken /\ P_MetUnterminatedString) =>
        /\ p_has_error
        /\ p_current = ByteLen(source)
        /\ p_c_iter = Len(source)
        /\ p_tokens = p_entry.tokens

\* both scanners have given up on an unterminated string of several
\* characters that follows a token
C5_Witness ==
    /\ o_pc = "done" /\ o_entry.called /\ O_MetUnterminatedString
    /\ P_AfterScanToken /\ P_MetUnterminatedString
    /\ P_EntryIndex + 2 <= Len(source)
    /\ Len(o_entry.tokens) >= 1 /\ Len(p_tokens) >= 1

(***************************************************************************)
(* C6: Peekable-based scanner: a scan_token call that meets an opening     *)
(* quote with a closing quote further on, at whatever offset, does not     *)
(* panic and pushes exactly one String token, whose lexeme runs from quote *)
(* to quote and whose literal is the characters strictly between them.     *)
(***************************************************************************)
P_ClosingQuote == FirstFrom(P_EntryIndex + 1, {"\""})
O_ClosingQuote == FirstFrom(O_EntryIndex + 1, {"\""})

C6_SyntaxStringLiteral ==
    /\ (p_pc = "panic" /\ p_c = "\"") => P_ClosingQuote > Len(source)
    /\ (P_AfterScanToken /\ CharAtIndex(P_EntryIndex) = "\"" /\ P_ClosingQuote <= Len(source)) =>
        LET lex == SubSeq(source, P_EntryIndex, P_ClosingQuote)
            inner == SubSeq(source, P_EntryIndex + 1, P_ClosingQuote - 1)
        IN  /\ Len(p_tokens) = Len(p_entry.tokens) + 1
            /\ IsPrefix(p_entry.tokens, p_tokens)
            /\ p_tokens[Len(p_tokens)].token_type = "String"
            /\ p_tokens[Len(p_tokens)].lexeme = lex
            /\ p_tokens[Len(p_tokens)].literal = LiteralString(inner)

(***************************************************************************)
(* C7: offset-based scanner: a scan_token call that meets an opening quote *)
(* with a closing quote further on, at whatever offset, does not panic and *)
(* pushes exactly one String token, whose lexeme runs from quote to quote  *)
(* and whose literal is the characters strictly between them, backslashes  *)
(* and newlines included as they are.                                      *)
(***************************************************************************)
C7_OffsetStringLiteral ==
    /\ (o_pc = "panic" /\ o_c = "\"") => O_ClosingQuote > Len(source)
    /\ (O_AfterScanToken /\ CharAtIndex(O_EntryIndex) = "\"" /\ O_ClosingQuote <= Len(source)) =>
        LET lex == SubSeq(source, O_EntryIndex, O_ClosingQuote)
            inner == SubSeq(source, O_EntryIndex + 1, O_ClosingQuote - 1)
        IN  /\ Len(o_tokens) = Len(o_entry.tokens) + 1
            /\ IsPrefix(o_entry.tokens, o_tokens)
            /\ o_tokens[Len(o_tokens)].token_type = "String"
            /\ o_tokens[Len(o_tokens)].lexeme = lex
            /\ o_tokens[Len(o_tokens)].literal = LiteralString(inner)
            /\ o_current = ByteOff(source, O_ClosingQuote)

\* a String token was pushed for a literal that starts past a two-byte
\* character and holds a backslash and a newline
C7_Witness ==
    /\ O_AfterScanToken
    /\ CharAtIndex(O_EntryIndex) = "\""
    /\ O_EntryIndex >= 2 /\ o_entry.current > O_EntryIndex - 1
    /\ O_ClosingQuote <= Len(source)
    /\ o_tokens[Len(o_tokens)].literal \in
           {LiteralString(<<"\\", "\n">>), LiteralString(<<"\n", "\\">>)}

(***************************************************************************)
(* C8: in both scanners, a scan_token call that meets '!', '=', '<' or '>' *)
(* pushes, when the next character is '=', the one two-character token     *)
(* and consumes both characters, and otherwise the one-character token,    *)
(* consuming that character only; "===" gives EqualEqual, Equal and        *)
(* "=(==)" gives Equal, LeftParen, EqualEqual, RightParen.                 *)
(***************************************************************************)
C8_OneCharType(c) ==
    CASE c = "!" -> "Bang" [] c = "=" -> "Equal" [] c = "<" -> "Less" [] c = ">" -> "Greater"
C8_TwoCharType(c) ==
    CASE c = "!" -> "BangEqual" [] c = "=" -> "EqualEqual"
      [] c = "<" -> "LessEqual" [] c = ">" -> "GreaterEqual"

C8_Expected(i, line) ==
    LET c == CharAtIndex(i)
    IN  IF CharAtIndex(i + 1) = "="
        THEN Token(C8_TwoCharType(c), <<c, "=">>, LiteralNone, line)
        ELSE Token(C8_OneCharType(c), <<c>>, LiteralNone, line)

C8_OneOrTwoCharOperators ==
    /\ (O_AfterScanToken /\ CharAtIndex(O_EntryIndex) \in {"!", "=", "<", ">"}) =>
        /\ o_tokens = Append(o_entry.tokens, C8_Expected(O_EntryIndex, o_entry.line))
        /\ o_current = o_entry.current + Len(o_tokens[Len(o_tokens)].lexeme)
    /\ (P_AfterScanToken /\ CharAtIndex(P_EntryIndex) \in {"!", "=", "<", ">"}) =>
        /\ p_tokens = Append(p_entry.tokens, C8_Expected(P_EntryIndex, p_entry.line))
        /\ p_current = p_entry.current + Len(p_tokens[Len(p_tokens)].lexeme)
        /\ p_c_iter = P_EntryIndex - 1 + Len(p_tokens[Len(p_tokens)].lexeme)
    /\ (source = <<"=", "=", "=">> /\ o_pc = "done") =>
        TokenTypes(NonEof(o_result.tokens)) = <<"EqualEqual", "Equal">>
    /\ (source = <<"=", "=", "=">> /\ p_pc = "done") =>
        TokenTypes(NonEof(p_result.tokens)) = <<"EqualEqual", "Equal">>
    /\ (source = TestAssignmentAndEqualMix /\ o_pc = "done") =>
        TokenTypes(NonEof(o_result.tokens)) = <<"Equal", "LeftParen", "EqualEqual", "RightParen">>
    /\ (source = TestAssignmentAndEqualMix /\ p_pc = "done") =>
        TokenTypes(NonEof(p_result.tokens)) = <<"Equal", "LeftParen", "EqualEqual", "RightParen">>

\* the Peekable-based scanner has just pushed '<' alone, the character
\* after it being left for the next call, as the offset-based one did
C8_Witness ==
    /\ o_pc = "done" /\ P_AfterScanToken
    /\ CharAtIndex(P_EntryIndex) = "<"
    /\ CharAtIndex(P_EntryIndex + 1) \notin {"=", NoChar}
    /\ p_tokens[Len(p_tokens)].token_type = "Less"
    /\ p_current < ByteLen(source)
    /\ IsPrefix(p_tokens, o_result.tokens)

(***************************************************************************)
(* C9: in both scanners, a scan_token call that meets "//" consumes every  *)
(* character up to, not including, the next newline (or up to the end of   *)
(* input), pushes no token and reports no error whatever those characters  *)
(* are; the newline is left to the next call, so that the line counter     *)
(* ends at 1 + the number of newlines of the source.  A '/' not followed   *)
(* by '/' pushes one Slash token.                                          *)
(***************************************************************************)
C9_CommentsSkipped ==
    /\ (O_AfterScanToken /\ CharAtIndex(O_EntryIndex) = "/") =>
        IF CharAtIndex(O_EntryIndex + 1) = "/"
        THEN /\ o_tokens = o_entry.tokens
             /\ o_has_error = o_entry.has_error
             /\ o_stderr = o_entry.stderr
             /\ o_line = o_entry.line
             /\ o_current = ByteOff(source, FirstFrom(O_EntryIndex + 2, {"\n"}) - 1)
        ELSE /\ o_tokens = Append(o_entry.tokens, Token("Slash", <<"/">>, LiteralNone, o_entry.line))
             /\ o_current = o_entry.current + 1
    /\ (P_AfterScanToken /\ CharAtIndex(P_EntryIndex) = "/") =>
        IF CharAtIndex(P_EntryIndex + 1) = "/"
        THEN /\ p_tokens = p_entry.tokens
             /\ p_has_error = p_entry.has_error
             /\ p_stderr = p_entry.stderr
             /\ p_line = p_entry.line
             /\ p_current = ByteOff(source, FirstFrom(P_EntryIndex + 2, {"\n"}) - 1)
             /\ p_c_iter = FirstFrom(P_EntryIndex + 2, {"\n"}) - 1
        ELSE /\ p_tokens = Append(p_entry.tokens, Token("Slash", <<"/">>, LiteralNone, p_entry.line))
             /\ p_current = p_entry.current + 1
    /\ o_pc = "done" => o_line = 1 + NewlinesIn(source)
    /\ p_pc = "done" => p_line = 1 + NewlinesIn(source)

\* both scanners are through a comment that holds a quote and an invalid
\* character and is followed by a newline and a token on line 2
C9_Witness ==
    /\ source = <<"(", "/", "/", "\"", "$", "\n", "(">>
    /\ o_pc = "done" /\ p_pc = "done"
    /\ o_result.variant = "Ok" /\ p_result.variant = "Ok"
    /\ TokenTypes(p_result.tokens) = <<"LeftParen", "LeftParen">>
    /\ o_result.tokens[2].line = 2 /\ p_result.tokens[2].line = 2

(***************************************************************************)
(* C10: in both scanners, a scan_token call that meets one of the ten      *)
(* punctuation characters ( ) { } . , ; + - * pushes exactly one token of  *)
(* that character's kind, with the character as lexeme and no literal, and *)
(* consumes that character alone, whatever comes before or after it.       *)
(***************************************************************************)
C10_Type(c) ==
    CASE c = "(" -> "LeftParen" [] c = ")" -> "RightParen"
      [] c = "{" -> "LeftBrace" [] c = "}" -> "RightBrace"
      [] c = "." -> "Dot" [] c = "," -> "Comma" [] c = ";" -> "Semicolon"
      [] c = "+" -> "Plus" [] c = "-" -> "Minus" [] c = "*" -> "Star"

C10_Punctuation == {"(", ")", "{", "}", ".", ",", ";", "+", "-", "*"}

C10_SingleCharacterTokens ==
    /\ (O_AfterScanToken /\ CharAtIndex(O_EntryIndex) \in C10_Punctuation) =>
        LET c == CharAtIndex(O_EntryIndex)
        IN  /\ o_tokens = Append(o_entry.tokens, Token(C10_Type(c), <<c>>, LiteralNone, o_entry.line))
            /\ o_current = o_entry.current + 1
            /\ o_has_error = o_entry.has_error
    /\ (P_AfterScanToken /\ CharAtIndex(P_EntryIndex) \in C10_Punctuation) =>
        LET c == CharAtIndex(P_EntryIndex)
        IN  /\ p_tokens = Append(p_entry.tokens, Token(C10_Type(c), <<c>>, LiteralNone, p_entry.line))
            /\ p_current = p_entry.current + 1
            /\ p_c_iter = P_EntryIndex
            /\ p_has_error = p_entry.has_error

\* both scanners are through "({*.,+*})" with the nine tokens of the test
C10_Witness ==
    /\ source = <<"(", "{", "*", ".", ",", "+", "*", "}", ")">>
    /\ o_pc = "done" /\ p_pc = "done"
    /\ TokenTypes(p_result.tokens) =
          <<"LeftParen", "LeftBrace", "Star", "Dot", "Comma", "Plus", "Star",
            "RightBrace", "RightParen">>
    /\ TokenTypes(NonEof(o_result.tokens)) = TokenTypes(p_result.tokens)

(***************************************************************************)
(* C11: in both scanners, a scan_token call that meets a space, a tab or a *)
(* carriage return moves the cursor past that character and changes        *)
(* nothing else: the token list, the line counter, the failure flag and    *)
(* the diagnostics are as they were.                                       *)
(***************************************************************************)
C11_Blank == {" ", "\t", "\r"}

C11_WhitespaceOnlyMovesCursor ==
    /\ (O_AfterScanToken /\ CharAtIndex(O_EntryIndex) \in C11_Blank) =>
        /\ o_tokens = o_entry.tokens
        /\ o_line = o_entry.line
        /\ o_has_error = o_entry.has_error
        /\ o_stderr = o_entry.stderr
        /\ o_current = o_entry.current + 1
    /\ (P_AfterScanToken /\ CharAtIndex(P_EntryIndex) \in C11_Blank) =>
        /\ p_tokens = p_entry.tokens
        /\ p_line = p_entry.line
        /\ p_has_error = p_entry.has_error
        /\ p_stderr = p_entry.stderr
        /\ p_current = p_entry.current + 1
        /\ p_c_iter = P_EntryIndex

\* the Peekable-based scanner has just stepped over the tab of " /  \t \r",
\* its Slash token in place, on which the offset-based one ended Ok
C11_Witness ==
    /\ source = <<" ", "/", " ", " ", "\t", " ", "\r">>
    /\ P_AfterScanToken /\ CharAtIndex(P_EntryIndex) = "\t"
    /\ TokenTypes(p_tokens) = <<"Slash">>
    /\ o_pc = "done" /\ o_result.variant = "Ok"
    /\ TokenTypes(o_result.tokens) = <<"Slash", "Eof">>

(***************************************************************************)
(* C12: in both scanners, a scan_token call that meets an ASCII digit does *)
(* not panic and pushes one Number token whose lexeme is the longest match *)
(* of digit+ ('.' digit+)? at that position: a '.' is taken only when a    *)
(* digit follows it.  Every Number token's lexeme has that form; "123."    *)
(* gives Number("123"), Dot and "1.2.3" gives Number("1.2"), Dot,          *)
(* Number("3").                                                            *)
(***************************************************************************)
\* the last index of the run of ASCII digits that starts at i (i - 1 if none)
C12_DigitsEnd(i) == FirstFrom(i, {c \in AllChars \cup Alphabet \cup Digits \cup AsciiLetters : c \notin Digits}) - 1

C12_NumberEnd(i) ==
    LET k == C12_DigitsEnd(i)
    IN  IF CharAtIndex(k + 1) = "." /\ CharAtIndex(k + 2) \in Digits
        THEN C12_DigitsEnd(k + 2)
        ELSE k

\* digit+ ('.' digit+)?
C12_WellFormed(lexeme) ==
    \E k \in 1..Len(lexeme) :
        /\ \A j \in 1..k : lexeme[j] \in Digits
        /\ \/ k = Len(lexeme)
           \/ /\ k + 2 <= Len(lexeme)
              /\ lexeme[k + 1] = "."
              /\ \A j \in (k + 2)..Len(lexeme) : lexeme[j] \in Digits

C12_NumberLexemes ==
    /\ o_pc = "panic" => o_c \notin Digits
    /\ p_pc = "panic" => p_c \notin Digits
    /\ \A i \in 1..Len(o_tokens) :
          o_tokens[i].token_type = "Number" => C12_WellFormed(o_tokens[i].lexeme)
    /\ \A i \in 1..Len(p_tokens) :
          p_tokens[i].token_type = "Number" => C12_WellFormed(p_tokens[i].lexeme)
    /\ (O_AfterScanToken /\ CharAtIndex(O_EntryIndex) \in Digits) =>
        LET lexeme == SubSeq(source, O_EntryIndex, C12_NumberEnd(O_EntryIndex))
        IN  /\ Len(o_tokens) = Len(o_entry.tokens) + 1
            /\ IsPrefix(o_entry.tokens, o_tokens)
            /\ o_tokens[Len(o_tokens)].token_type = "Number"
            /\ o_tokens[Len(o_tokens)].lexeme = lexeme
            /\ o_tokens[Len(o_tokens)].literal.tag = "Number"
            /\ o_current = o_entry.current + Len(lexeme)
    /\ (P_AfterScanToken /\ CharAtIndex(P_EntryIndex) \in Digits) =>
        LET lexeme == SubSeq(source, P_EntryIndex, C12_NumberEnd(P_EntryIndex))
        IN  /\ Len(p_tokens) = Len(p_entry.tokens) + 1
            /\ IsPrefix(p_entry.tokens, p_tokens)
            /\ p_tokens[Len(p_tokens)].token_type = "Number"
            /\ p_tokens[Len(p_tokens)].lexeme = lexeme
            /\ p_tokens[Len(p_tokens)].literal.tag = "Number"
            /\ p_current = p_entry.current + Len(lexeme)
    /\ (source = <<"1", "2", "3", ".">> /\ o_pc = "done" /\ p_pc = "done") =>
        /\ TokenTypes(p_result.tokens) = <<"Number", "Dot">>
        /\ p_result.tokens[1].lexeme = <<"1", "2", "3">>
        /\ NonEof(o_result.tokens) = p_result.tokens
    /\ (source = <<"1", ".", "2", ".", "3">> /\ o_pc = "done" /\ p_pc = "done") =>
        /\ TokenTypes(p_result.tokens) = <<"Number", "Dot", "Number">>
        /\ p_result.tokens[1].lexeme = <<"1", ".", "2">>
        /\ p_result.tokens[3].lexeme = <<"3">>
        /\ NonEof(o_result.tokens) = p_result.tokens
    /\ (source = <<"1", "2", "3", "4", ".", "1", "2", "3", "4">> /\ o_pc = "done") =>
        o_result.tokens[1].literal.n = [neg |-> FALSE, mant |-> 12341234, exp10 |-> 0 - 4]

\* both scanners are through "1.2.3": Number("1.2"), Dot, Number("3")
C12_Witness ==
    /\ source = <<"1", ".", "2", ".", "3">>
    /\ o_pc = "done" /\ p_pc = "done"
    /\ TokenTypes(p_result.tokens) = <<"Number", "Dot", "Number">>
    /\ TokenTypes(o_result.tokens) = <<"Number", "Dot", "Number", "Eof">>

(***************************************************************************)
(* C13: in both scanners, a scan_token call that meets a letter or '_'     *)
(* pushes one token without literal whose lexeme is the maximal run of     *)
(* identifier characters from there; its kind is the keyword kind if the   *)
(* whole lexeme is exactly one of the 16 lower-case reserved words and     *)
(* Identifier otherwise: "and" is And, while "And", "andy", "and_" and     *)
(* "_and" are Identifier.                                                  *)
(***************************************************************************)
C13_Keywords ==
    <<"a", "n", "d">> :> "And" @@
    <<"c", "l", "a", "s", "s">> :> "Class" @@
    <<"e", "l", "s", "e">> :> "Else" @@
    <<"f", "a", "l", "s", "e">> :> "False" @@
    <<"f", "o", "r">> :> "For" @@
    <<"f", "u", "n">> :> "Fun" @@
    <<"i", "f">> :> "If" @@
    <<"n", "i", "l">> :> "Nil" @@
    <<"o", "r">> :> "Or" @@
    <<"p", "r", "i", "n", "t">> :> "Print" @@
    <<"r", "e", "t", "u", "r", "n">> :> "Return" @@
    <<"s", "u", "p", "e", "r">> :> "Super" @@
    <<"t", "h", "i", "s">> :> "This" @@
    <<"t", "r", "u", "e">> :> "True" @@
    <<"v", "a", "r">> :> "Var" @@
    <<"w", "h", "i", "l", "e">> :> "While"

SourceChars == AllChars \cup Alphabet \cup Digits \cup AsciiLetters

\* the last index of the run of identifier characters that starts at i
C13_RunEnd(i) ==
    FirstFrom(i, {c \in SourceChars : ~(is_alphanumeric(c) \/ c = "_")}) - 1

C13_Type(lexeme) ==
    IF lexeme \in DOMAIN C13_Keywords THEN C13_Keywords[lexeme] ELSE "Identifier"

C13_Starts(c) == is_alphabetic(c) \/ c = "_"

C13_KeywordIffExactWord ==
    /\ Cardinality(DOMAIN C13_Keywords) = 16
    /\ (O_AfterScanToken /\ C13_Starts(CharAtIndex(O_EntryIndex))) =>
        LET lexeme == SubSeq(source, O_EntryIndex, C13_RunEnd(O_EntryIndex))
        IN  o_tokens = Append(o_entry.tokens,
                              Token(C13_Type(lexeme), lexeme, LiteralNone, o_entry.line))
    /\ (P_AfterScanToken /\ C13_Starts(CharAtIndex(P_EntryIndex))) =>
        LET lexeme == SubSeq(source, P_EntryIndex, C13_RunEnd(P_EntryIndex))
        IN  p_tokens = Append(p_entry.tokens,
                              Token(C13_Type(lexeme), lexeme, LiteralNone, p_entry.line))
    /\ (o_pc = "done" /\ p_pc = "done") =>
        /\ source = <<"a", "n", "d">> => TokenTypes(p_result.tokens) = <<"And">>
        /\ source \in {<<"A", "n", "d">>, <<"a", "n", "d", "y">>,
                       <<"a", "n", "d", "_">>, <<"_", "a", "n", "d">>} =>
              TokenTypes(p_result.tokens) = <<"Identifier">>
        /\ source \in WordSources => NonEof(o_result.tokens) = p_result.tokens

\* both scanners are through "andy": one Identifier, not And
C13_Witness ==
    /\ source = <<"a", "n", "d", "y">>
    /\ o_pc = "done" /\ p_pc = "done"
    /\ TokenTypes(o_result.tokens) = <<"Identifier", "Eof">>
    /\ p_result.tokens = <<Token("Identifier", source, LiteralNone, 1)>>

(***************************************************************************)
(* C14: in both scanners, the line of every token is 1 plus the number of  *)
(* newlines of the source before the first character of the token's        *)
(* lexeme (before the end of the source, for Eof), String tokens whose     *)
(* literal spans several lines included.                                   *)
(***************************************************************************)
C14_LineOfFirstCharacter ==
    /\ (O_AfterScanToken /\ Len(o_tokens) > Len(o_entry.tokens)) =>
        o_tokens[Len(o_tokens)].line
            = 1 + NewlinesIn(SubSeq(source, 1, O_EntryIndex - 1))
    /\ (P_AfterScanToken /\ Len(p_tokens) > Len(p_entry.tokens)) =>
        p_tokens[Len(p_tokens)].line
            = 1 + NewlinesIn(SubSeq(source, 1, P_EntryIndex - 1))
    /\ o_pc = "done" =>
        o_result.tokens[Len(o_result.tokens)].line = 1 + NewlinesIn(source)

(***************************************************************************)
(* C15: in both scanners, every lexical error is surfaced: a scan_token    *)
(* call that meets an unexpected character c appends exactly the           *)
(* diagnostic "[line N] Error: Unexpected character: c", N being 1 plus    *)
(* the newlines before c; a call that meets a string without closing quote *)
(* appends exactly "[line N] Error: Unterminated string.", N being the     *)
(* line on which the input ends; every other call appends nothing.  The    *)
(* diagnostics are therefore in source order, one per error, and not only  *)
(* the first one.                                                          *)
(***************************************************************************)
C15_Expected(i, stderr) ==
    IF Unrecognised(CharAtIndex(i))
    THEN Append(stderr, [line |-> 1 + NewlinesIn(SubSeq(source, 1, i - 1)),
                         message |-> "Unexpected character: ",
                         c |-> source[i]])
    ELSE IF CharAtIndex(i) = "\"" /\ FirstFrom(i + 1, {"\""}) = Len(source) + 1
    THEN Append(stderr, [line |-> 1 + NewlinesIn(source),
                         message |-> "Unterminated string.",
                         c |-> NoChar])
    ELSE stderr

C15_EveryErrorSurfaced ==
    /\ O_AfterScanToken => o_stderr = C15_Expected(O_EntryIndex, o_entry.stderr)
    /\ P_AfterScanToken => p_stderr = C15_Expected(P_EntryIndex, p_entry.stderr)
    /\ ~o_entry.called => o_stderr = <<>>
    /\ ~p_entry.called => p_stderr = <<>>
    /\ o_pc = "done" => (o_result.variant = "Err" <=> o_stderr /= <<>>)
    /\ p_pc = "done" => (p_result.variant = "Err" <=> p_stderr /= <<>>)

\* "$", newline, "#", newline, and a quote that is never closed: three
\* diagnostics, on lines 1, 2 and 3, from both scanners
C15_Witness ==
    /\ source = <<"$", "\n", "#", "\n", "\"", "a">>
    /\ o_pc = "done" /\ p_pc = "done"
    /\ o_stderr = <<UnexpectedCharacter(1, "$"), UnexpectedCharacter(2, "#"),
                    UnterminatedString(3)>>
    /\ p_stderr = o_stderr

(***************************************************************************)
(* C16: in both scanners, only ASCII letters, ASCII digits and '_' are     *)
(* identifier constituents: the lexeme of every Identifier or keyword      *)
(* token consists of such characters only, and a scan_token call that      *)
(* meets a non-ASCII alphabetic or numeric character pushes no token and   *)
(* reports it as an unexpected character.                                  *)
(***************************************************************************)
C16_Constituents == AsciiLetters \cup Digits \cup {"_"}

C16_IdentifierKinds == {"Identifier"} \cup {C13_Keywords[w] : w \in DOMAIN C13_Keywords}

C16_NonAscii == NonAsciiAlphabetic \cup NonAsciiNumeric

C16_AsciiOnlyIdentifiers ==
    /\ \A i \in 1..Len(o_tokens) :
          o_tokens[i].token_type \in C16_IdentifierKinds =>
              \A j \in 1..Len(o_tokens[i].lexeme) : o_tokens[i].lexeme[j] \in C16_Constituents
    /\ \A i \in 1..Len(p_tokens) :
          p_tokens[i].token_type \in C16_IdentifierKinds =>
              \A j \in 1..Len(p_tokens[i].lexeme) : p_tokens[i].lexeme[j] \in C16_Constituents
    /\ (O_AfterScanToken /\ CharAtIndex(O_EntryIndex) \in C16_NonAscii) =>
        /\ o_tokens = o_entry.tokens
        /\ o_has_error
        /\ o_stderr = Append(o_entry.stderr,
                             UnexpectedCharacter(o_entry.line, source[O_EntryIndex]))
    /\ (P_AfterScanToken /\ CharAtIndex(P_EntryIndex) \in C16_NonAscii) =>
        /\ p_tokens = p_entry.tokens
        /\ p_has_error
        /\ p_stderr = Append(p_entry.stderr,
                             UnexpectedCharacter(p_entry.line, source[P_EntryIndex]))

(***************************************************************************)
(* C17: for both scanners, the lexemes of the returned tokens,             *)
(* concatenated in order, are the source without its whitespace and        *)
(* newlines outside strings, its comments and its skipped invalid          *)
(* characters: every other character of the source is in exactly one       *)
(* lexeme.                                                                 *)
(***************************************************************************)
RECURSIVE C17_Lexemes(_)
C17_Lexemes(tokens) ==
    IF tokens = <<>> THEN <<>>
    ELSE tokens[1].lexeme \o C17_Lexemes(Tail(tokens))

\* source from index i on, without whitespace, comments and invalid
\* characters; the text of a string that is never closed is kept or removed
RECURSIVE C17_Rest(_, _)
C17_Rest(i, unterminated_kept) ==
    IF i > Len(source) THEN <<>>
    ELSE IF source[i] \in {" ", "\t", "\r", "\n"}
    THEN C17_Rest(i + 1, unterminated_kept)
    ELSE IF source[i] = "/" /\ CharAtIndex(i + 1) = "/"
    THEN C17_Rest(FirstFrom(i + 2, {"\n"}), unterminated_kept)
    ELSE IF source[i] = "\""
    THEN LET q == FirstFrom(i + 1, {"\""})
         IN  IF q <= Len(source)
             THEN SubSeq(source, i, q) \o C17_Rest(q + 1, unterminated_kept)
             ELSE IF unterminated_kept THEN SubSeq(source, i, Len(source)) ELSE <<>>
    ELSE IF C13_Starts(source[i])
    THEN SubSeq(source, i, C13_RunEnd(i)) \o C17_Rest(C13_RunEnd(i) + 1, unterminated_kept)
    ELSE IF Unrecognised(source[i])
    THEN C17_Rest(i + 1, unterminated_kept)
    ELSE <<source[i]>> \o C17_Rest(i + 1, unterminated_kept)

C17_RoundTrip ==
    /\ o_pc = "done" => C17_Lexemes(o_result.tokens) = C17_Rest(1, TRUE)
    /\ p_pc = "done" => C17_Lexemes(p_result.tokens) = C17_Rest(1, TRUE)

\* C17, amended: for both scanners, the lexemes of the returned tokens,
\* concatenated in order, are the source without its whitespace and newlines
\* outside strings, its comments, its skipped invalid characters and the text
\* of a string that is never closed, from its opening quote to the end of
\* the source.
C17_RoundTripWithoutUnterminated ==
    /\ o_pc = "done" => C17_Lexemes(o_result.tokens) = C17_Rest(1, FALSE)
    /\ p_pc = "done" => C17_Lexemes(p_result.tokens) = C17_Rest(1, FALSE)

\* both scanners are through a source with a blank, an invalid character, a
\* comment, a newline and a string that is never closed: "a" and "1" remain
C17_Witness ==
    /\ source = <<"a", " ", "$", "/", "/", "b", "\n", "1", "\"", " ">>
    /\ o_pc = "done" /\ p_pc = "done"
    /\ C17_Lexemes(o_result.tokens) = <<"a", "1">>
    /\ C17_Lexemes(p_result.tokens) = <<"a", "1">>
    /\ TokenTypes(o_result.tokens) = <<"Identifier", "Number", "Eof">>

(***************************************************************************)
(* C18: in every reachable state of both scanners, every token of the      *)
(* token list and of a returned sequence has a string literal if and only  *)
(* if its kind is String, a number literal if and only if its kind is      *)
(* Number, and no literal otherwise.                                       *)
(***************************************************************************)
C18_LiteralFits(token) ==
    /\ token.literal.tag \in {"String", "Number", "None"}
    /\ token.literal.tag = "String" <=> token.token_type = "String"
    /\ token.literal.tag = "Number" <=> token.token_type = "Number"

C18_LiteralMatchesKind ==
    \A tokens \in {o_tokens, p_tokens, o_result.tokens, p_result.tokens} :
        \A i \in 1..Len(tokens) : C18_LiteralFits(tokens[i])

\* both scanners are through 1 "a" a: a Number, a String and an Identifier
C18_Witness ==
    /\ source = <<"1", "\"", "a", "\"", "a">>
    /\ o_pc = "done" /\ p_pc = "done"
    /\ TokenTypes(p_result.tokens) = <<"Number", "String", "Identifier">>
    /\ p_result.tokens[2].literal.tag = "String"
    /\ o_result.tokens[1].literal = LiteralNumber([neg |-> FALSE, mant |-> 1, exp10 |-> 0])
    /\ o_result.tokens[2].literal = LiteralString(<<"a">>)
    /\ o_result.tokens[3].literal = LiteralNone

(***************************************************************************)
(* C19: in every reachable state of both scanners, the states inside       *)
(* advance_if_match and inside the tentative step of add_number over a     *)
(* '.' included, 0 <= start <= current <= length of the source in bytes,   *)
(* and start and current are on character boundaries of the source.        *)
(***************************************************************************)
C19_CursorInBounds ==
    /\ 0 <= o_start /\ o_start <= o_current /\ o_current <= ByteLen(source)
    /\ IsCharBoundary(source, o_start) /\ IsCharBoundary(source, o_current)
    /\ 0 <= p_start /\ p_start <= p_current /\ p_current <= ByteLen(source)
    /\ IsCharBoundary(source, p_start) /\ IsCharBoundary(source, p_current)
    /\ p_current = ByteOff(source, p_c_iter)

\* add_number has stepped over the '.' that ends a source of a three-byte
\* character, "1" and ".": current is the length of the source, 5 bytes, and
\* will step back
C19_Witness ==
    /\ source = <<"U+263A", "1", ".">>
    /\ o_pc = "add_number_dot"
    /\ o_start = 3 /\ o_current = 5 /\ ByteLen(source) = 5

(***************************************************************************)
(* C20: in both scanners the line counter starts at 1, never decreases,    *)
(* and is 1 plus the number of newlines consumed so far, wherever they     *)
(* are: between tokens, inside a comment's end, inside a string; when the  *)
(* input is exhausted it is 1 plus the number of newlines of the source.   *)
(***************************************************************************)
C20_LineCountsNewlines ==
    /\ ~o_entry.called => o_line = 1
    /\ ~p_entry.called => p_line = 1
    /\ o_entry.called => o_entry.line <= o_line
    /\ p_entry.called => p_entry.line <= p_line
    /\ o_pc /= "matched" =>
          o_line = 1 + NewlinesIn(SubSeq(source, 1, CharsBefore(source, o_current)))
    /\ p_line = 1 + NewlinesIn(SubSeq(source, 1, p_c_iter))
    /\ o_pc = "done" => o_line = 1 + NewlinesIn(source)
    /\ p_pc = "done" => p_line = 1 + NewlinesIn(source)

\* both scanners are through a newline, a string holding a newline and a
\* comment ended by a newline: line 4
C20_Witness ==
    /\ source = <<"\n", "\"", "\n", "\"", "/", "/", "\n">>
    /\ o_pc = "done" /\ p_pc = "done"
    /\ o_line = 4 /\ p_line = 4

(***************************************************************************)
(* C21: in both scanners scan_tokens terminates on every source: every     *)
(* scan_token call of its loop leaves current strictly greater than it     *)
(* found it, no inner loop (comment, string, number, identifier) takes a   *)
(* step without consuming a character, so that the scanner takes at most   *)
(* 3 * len(source) + 1 steps in all; when scan_tokens returns, current is  *)
(* the length of the source.                                               *)
(***************************************************************************)
C21_InnerLoops ==
    {"comment", "add_string", "add_number", "add_number_frac", "add_identifier"}

\* a call takes at most three steps for each character it consumes (the
\* look-ahead of an operator or of a number with its step back), and the
\* loop exit is one step more
C21_MostSteps == 3 * Len(source) + 1

C21_Terminates ==
    /\ O_AfterScanToken => o_current > o_entry.current
    /\ P_AfterScanToken => p_current > p_entry.current
    /\ o_pc \in C21_InnerLoops => o_current > o_entry.current
    /\ p_pc \in C21_InnerLoops => p_current > p_entry.current
    /\ o_steps <= C21_MostSteps
    /\ p_steps <= C21_MostSteps
    /\ o_pc = "done" => o_current = ByteLen(source)
    /\ p_pc = "done" => p_current = ByteLen(source)

\* both scanners are through "foo bar _hello", five calls with three
\* identifier loops, the cursor at the end of the source
C21_Witness ==
    /\ source = <<"f", "o", "o", " ", "b", "a", "r", " ", "_", "h", "e", "l", "l", "o">>
    /\ o_pc = "done" /\ p_pc = "done"
    /\ o_current = 14 /\ p_current = 14
    /\ Len(p_result.tokens) = 3
    /\ o_steps = 18 /\ p_steps = 18

(***************************************************************************)
(* C22: the two scanners are observationally equivalent: for every source, *)
(* when the offset-based scan_tokens has returned, the Peekable-based one  *)
(* returns too, with the same Ok/Err and the same token sequence (kind,    *)
(* lexeme, literal and line of every token, the final Eof included).       *)
(***************************************************************************)
C22_SameResult ==
    (o_pc = "done" /\ p_pc \in {"done", "panic"}) =>
        /\ p_pc = "done"
        /\ p_result = o_result

(***************************************************************************)
(* C23: neither scanner aborts: no slice of the source or of a lexeme is   *)
(* out of range or off a character boundary, and the number parse does not *)
(* fail, on any source.                                                    *)
(***************************************************************************)
C23_NeverAborts == o_pc /= "panic" /\ p_pc /= "panic"

(***************************************************************************)
(* C24: scan_tokens of the offset-based scanner is idempotent: whenever it *)
(* has returned, after its first call or a further one, the sequence       *)
(* returned is the one of the first call, the tokens scanned followed by   *)
(* one Eof token, so that the token list holds exactly one Eof, at its     *)
(* end.                                                                    *)
(***************************************************************************)
C24_ScanTokensIdempotent ==
    o_pc = "done" =>
        /\ EofCount(o_result.tokens) = 1
        /\ o_result.tokens[Len(o_result.tokens)].token_type = "Eof"
        /\ o_result = ScanResult(o_has_error, Append(NonEof(o_tokens), EofToken(o_line)))

(***************************************************************************)
(* C25: whatever the order in which the public scan_token and scan_tokens  *)
(* are called on a scanner, the lexeme of every token other than Eof is    *)
(* the text consumed by the scan_token call that pushed it, from the first *)
(* character that call consumed to the cursor at its return, and the token *)
(* list holds at most one Eof token.                                       *)
(***************************************************************************)
C25_O_Pushed ==
    /\ o_pc \in {"idle", "loop"} /\ o_entry.called
    /\ Len(o_tokens) > Len(o_entry.tokens)
    /\ o_tokens[Len(o_tokens)].token_type /= "Eof"

C25_P_Pushed ==
    /\ p_pc \in {"idle", "loop"} /\ p_entry.called
    /\ Len(p_tokens) > Len(p_entry.tokens)
    /\ p_tokens[Len(p_tokens)].token_type /= "Eof"

C25_LexemeOfTheCall ==
    /\ C25_O_Pushed =>
          o_tokens[Len(o_tokens)].lexeme
              = SubSeq(source, O_EntryIndex, CharsBefore(source, o_current))
    /\ C25_P_Pushed =>
          p_tokens[Len(p_tokens)].lexeme
              = SubSeq(source, P_EntryIndex, CharsBefore(source, p_current))
    /\ EofCount(o_tokens) <= 1
    /\ EofCount(p_tokens) <= 1

====
